---------------------------- MODULE Spec2Model ----------------------------
(***************************************************************************)
(* SpeakerAnalyzer of src/src/speaker_identification.py: the evidence      *)
(* store (utterances), the belief state (roles / confidence / reasoning),  *)
(* the classification pass analyze_with_llm, the background loop started   *)
(* by start_parallel_analysis, and the threads that drive them.            *)
(***************************************************************************)
EXTENDS Integers, Sequences, FiniteSets, TLC

(***************************************************************************)
(* Bounds of the model.                                                    *)
(***************************************************************************)
MaxUtterances == 3      \* add_utterance calls that reach the store
MaxEmpty == 1           \* of these, calls with the empty text
MaxWrap == 2            \* tokens of prose before / after an oracle payload

None == "None"

(***************************************************************************)
(* Speaker ids.  The diarizer numbers voices in order of appearance, so a  *)
(* speaker is first heard only after every earlier one.  "Z" is an id the  *)
(* oracle may name although no utterance was ever recorded for it.         *)
(***************************************************************************)
Speakers == <<"A", "B", "C">>
SpeakerIds == {Speakers[i] : i \in 1..Len(Speakers)}
PhantomId == "Z"
AllIds == SpeakerIds \cup {PhantomId}

(***************************************************************************)
(* Utterance texts: a text is a sequence of words; the empty sequence is   *)
(* the empty string (DisplayText defaults to "").                          *)
(***************************************************************************)
Texts == { <<>>, <<"risk">> }

\* worker threads that can be alive at once; a start takes one that is not
WorkerOrder == <<"w1", "w2">>
Workers == {WorkerOrder[i] : i \in 1..Len(WorkerOrder)}
Threads == Workers \cup {"cb", "main"}

(***************************************************************************)
(* Oracle responses.  A completion is a sequence of tokens: the markdown   *)
(* fence, the word json, braces, white space, prose words, and one token   *)
(* per JSON object body the oracle may produce.                            *)
(***************************************************************************)
Fence == "fence"       \* the three-backtick markdown fence

Emp == [x \in {} |-> None]

PayloadIds == {"pa", "pb", "pz", "pbad"}

SecAbsent == [kind |-> "absent", map |-> Emp]   \* key not in result
SecBad == [kind |-> "bad", map |-> Emp]         \* a value dict.update() rejects (a number)
SecMap(f) == [kind |-> "map", map |-> f]

PayloadOf(id) ==
    CASE id = "pa" ->
           [roles      |-> SecMap([s \in {"A", "B"} |-> IF s = "A" THEN "advisor" ELSE "client"]),
            confidence |-> SecMap([s \in {"A", "B"} |-> IF s = "A" THEN 9 ELSE 6]),
            reasoning  |-> SecMap([s \in {"A", "B"} |-> IF s = "A" THEN "ra" ELSE "rb"])]
      [] id = "pb" ->
           [roles      |-> SecMap([s \in {"A"} |-> "client"]),
            confidence |-> SecAbsent,
            reasoning  |-> SecAbsent]
      [] id = "pz" ->
           [roles      |-> SecMap([s \in {PhantomId} |-> "narrator"]),
            confidence |-> SecMap([s \in {PhantomId} |-> 15]),
            reasoning  |-> SecAbsent]
      [] id = "pbad" ->
           [roles      |-> SecMap([s \in {"A"} |-> "client"]),
            confidence |-> SecBad,
            reasoning  |-> SecAbsent]
      [] OTHER ->
           [roles |-> SecAbsent, confidence |-> SecAbsent, reasoning |-> SecAbsent]

EmptyObject == "{}"

\* the tokens of a completion
Tokens == {Fence, "json", "{", "}", "nl", "w"} \cup PayloadIds

IsSpace(tok) == tok = "nl"

\* str.strip()
RECURSIVE LStrip(_)
LStrip(s) == IF s # <<>> /\ IsSpace(Head(s)) THEN LStrip(Tail(s)) ELSE s

RECURSIVE RStrip(_)
RStrip(s) == IF s # <<>> /\ IsSpace(s[Len(s)]) THEN RStrip(SubSeq(s, 1, Len(s) - 1)) ELSE s

Strip(s) == RStrip(LStrip(s))

Min(S) == CHOOSE x \in S : \A y \in S : x <= y
Max(S) == CHOOSE x \in S : \A y \in S : x >= y

\* positions where a fence followed by json / a fence starts
FenceJsonAt(c) == {i \in 1..Len(c) : c[i] = Fence /\ i < Len(c) /\ c[i + 1] = "json"}
FenceAt(c) == {i \in 1..Len(c) : c[i] = Fence}

\* completion.split(fence + json)[1].split(fence)[0]
AfterFenceJson(c) ==
    LET start == Min(FenceJsonAt(c)) + 2
        later == {i \in FenceAt(c) : i >= start}
        stop == IF later = {} THEN Len(c) ELSE Min(later) - 1
    IN SubSeq(c, start, stop)

\* completion.split(fence)[1].split(fence)[0]
AfterFence(c) ==
    LET start == Min(FenceAt(c)) + 1
        later == {i \in FenceAt(c) : i >= start}
        stop == IF later = {} THEN Len(c) ELSE Min(later) - 1
    IN SubSeq(c, start, stop)

\* the text handed to the first json.loads
JsonContent(c) ==
    IF FenceJsonAt(c) # {} THEN Strip(AfterFenceJson(c))
    ELSE IF FenceAt(c) # {} THEN Strip(AfterFence(c))
    ELSE Strip(c)

DecodeError == "JSONDecodeError"

\* json.loads: the payload id of a well-formed object, or DecodeError
JsonLoads(s) ==
    LET t == Strip(s)
    IN IF Len(t) = 3 /\ t[1] = "{" /\ t[2] \in PayloadIds /\ t[3] = "}" THEN t[2]
       ELSE IF t = <<"{", "}">> THEN EmptyObject
       ELSE DecodeError

\* re.search with the greedy brace pattern and DOTALL: first opening brace to
\* last closing brace; the empty sequence when there is no match
RegexBraces(c) ==
    LET opens == {i \in 1..Len(c) : c[i] = "{"}
        closes == {i \in 1..Len(c) : c[i] = "}"}
    IN IF opens = {} \/ closes = {} \/ Max(closes) < Min(opens) THEN <<>>
       ELSE SubSeq(c, Min(opens), Max(closes))

(***************************************************************************)
(* What analyze_with_llm makes of a completion: the parsed object to       *)
(* merge, or the value returned without merging.                           *)
(***************************************************************************)
ParseCompletion(c) ==
    LET first == JsonLoads(JsonContent(c))
        m == RegexBraces(c)
    IN IF first # DecodeError THEN [ok |-> TRUE, result |-> first, ret |-> "True"]
       ELSE IF m = <<>> THEN [ok |-> FALSE, result |-> None, ret |-> "None"]
       ELSE IF JsonLoads(m) # DecodeError THEN [ok |-> TRUE, result |-> JsonLoads(m), ret |-> "True"]
       ELSE [ok |-> FALSE, result |-> None, ret |-> "False"]

Bare(id) == <<"{", id, "}">>

InJsonFence(p) == <<Fence, "json", "nl">> \o p \o <<"nl", Fence>>
InFence(p) == <<Fence, "nl">> \o p \o <<"nl", Fence>>
InProse(p) == <<"w", "nl">> \o p \o <<"nl", "w">>

\* the completions the oracle returns in the model of the whole analyzer
Completions ==
    {Bare(id) : id \in PayloadIds}
        \cup {InJsonFence(Bare("pa")), InProse(Bare("pb")), <<"{", "}">>,
              <<"w">>, <<"{", "w", "}">>}

(***************************************************************************)
(* The best guess of scripts/test_dynamic_speaker_identification.py, the   *)
(* copy of analyze_with_llm that has a fallback.                           *)
(***************************************************************************)
AdvisorIndicators ==
    {"portfolj", "investering", "tillgang", "fond", "aktie", "obligation",
     "avkastning", "risk", "marknad", "rekommenderar", "strategi"}

\* str.lower() on a word
Lower(word) ==
    CASE word = "Risk" -> "risk"
      [] word = "Fond" -> "fond"
      [] OTHER -> word

\* the indicator terms that occur inside a lower-case word
TermsIn(word) ==
    CASE word = "riskfri" -> {"risk"}
      [] word = "fonder" -> {"fond"}
      [] OTHER -> {word}

\* indicator.lower() in text.lower(): a substring match
Matches(indicator, text) ==
    \E i \in 1..Len(text) : Lower(indicator) \in TermsIn(Lower(text[i]))

RECURSIVE AdvisorScore(_)
AdvisorScore(texts) ==
    IF texts = <<>> THEN 0
    ELSE Cardinality({ind \in AdvisorIndicators : Matches(ind, Head(texts))})
           + AdvisorScore(Tail(texts))

HeuristicRole(texts) == IF AdvisorScore(texts) >= 2 THEN "advisor" ELSE "client"
HeuristicConfidence(texts) == IF AdvisorScore(texts) >= 2 THEN 7 ELSE 6

(***************************************************************************)
(* State.                                                                  *)
(***************************************************************************)
VARIABLES
    utterances,                 \* speaker id -> recorded texts (<<>>: no key)
    known_speakers,
    roles, confidence, reasoning,
    last_utterance_count,       \* the watermark
    min_utterances_per_speaker,
    stop_analysis,
    analysis_thread,            \* the Thread object of the latest start, or None
    analysis_lock,              \* the thread that holds it, or None
    pc,                         \* where each thread is
    ret,                        \* what analyze_with_llm returned to the controlling
                                \* thread (the loop and the callback drop the value)
    cur,                        \* the parsed result a thread is merging
    rd,                         \* the reader: "idle", or "holding" what a getter returned
    since,                      \* history: what happened since a scan last recorded
                                \* the watermark: "none" (it never did), "nothing",
                                \* "polled" (scans only), "start" (a start, no
                                \* utterance), "utterance"; and "fresh": a start
                                \* with no utterance and no such scan after it
    nonempty_calls,             \* history: add_utterance calls with non-empty text
    returned,                   \* history: add_utterance calls that returned, per speaker
    returned_new,               \* history: of these, the calls that returned True
    text, outcome,              \* the completion under test and what a pass makes of it
    azure_openai_provider       \* RealtimeRecorder.azure_openai_provider, or None

vars == <<utterances, known_speakers, roles, confidence, reasoning,
          last_utterance_count, min_utterances_per_speaker, stop_analysis,
          analysis_thread, analysis_lock, pc, ret, cur, rd,
          since, nonempty_calls, returned, returned_new, text, outcome,
          azure_openai_provider>>

store == <<utterances, known_speakers>>
belief == <<roles, confidence, reasoning>>
loopctl == <<min_utterances_per_speaker, stop_analysis, analysis_thread>>
calls == <<nonempty_calls, returned, returned_new>>
hist == <<since, nonempty_calls, returned, returned_new>>
harness == <<text, outcome>>
recorder == <<azure_openai_provider>>

NoText == [payload |-> None, completion |-> <<>>]
NoOutcome == [ret |-> "none", roles |-> Emp, confidence |-> Emp, reasoning |-> Emp]

\* SpeakerAnalyzer.__init__
Init ==
    /\ utterances = [s \in SpeakerIds |-> <<>>]
    /\ known_speakers = {}
    /\ roles = Emp
    /\ confidence = Emp
    /\ reasoning = Emp
    /\ last_utterance_count = Emp
    /\ min_utterances_per_speaker = 2
    /\ stop_analysis = FALSE
    /\ analysis_thread = None
    /\ analysis_lock = None
    /\ pc = [t \in Threads |-> IF t \in Workers THEN "dead" ELSE "idle"]
    /\ ret = "none"
    /\ cur = [t \in Threads |-> None]
    /\ rd = "idle"
    /\ since = "none"
    /\ nonempty_calls = [s \in SpeakerIds |-> 0]
    /\ returned = [s \in SpeakerIds |-> 0]
    /\ returned_new = [s \in SpeakerIds |-> 0]
    /\ text = NoText
    /\ outcome = NoOutcome
    /\ azure_openai_provider = None

\* where a thread goes on when analyze_with_llm returns
Cont(t) == IF t \in Workers THEN "w_top" ELSE "idle"

\* an assignment of the result's map in place of dict.update
Update_replaces(d, m) == m

\* dict.update
Update(d, m) == [s \in DOMAIN d \cup DOMAIN m |-> IF s \in DOMAIN m THEN m[s] ELSE d[s]]

\* get_utterance_count
get_utterance_count(s) == IF s \in SpeakerIds THEN Len(utterances[s]) ELSE 0

\* the keys of self.utterances
Recorded == {s \in SpeakerIds : utterances[s] # <<>>}

RECURSIVE SumLen(_)
SumLen(S) == IF S = {} THEN 0
             ELSE LET s == CHOOSE x \in S : TRUE IN Len(utterances[s]) + SumLen(S \ {s})

Stored == SumLen(SpeakerIds)

EmptyStored == Cardinality({<<s, i>> \in SpeakerIds \X (1..MaxUtterances + 1) :
                               i <= Len(utterances[s]) /\ utterances[s][i] = <<>>})

\* the diarizer hands out ids in order of first appearance
NextSpeakers == {Speakers[i] : i \in {j \in 1..Len(Speakers) :
                                        j = 1 \/ Speakers[j - 1] \in known_speakers}}

\* the calls the transcriber makes within the bounds
Admissible(s, tx) ==
    /\ Stored < MaxUtterances
    /\ tx = <<>> => EmptyStored < MaxEmpty
    /\ s \in NextSpeakers

(***************************************************************************)
(* Ingestion: the transcription callback thread "cb".                      *)
(***************************************************************************)
\* identify_speakers_from_audio.handle_final_result up to its call of
\* add_utterance; a new speaker makes it run a pass on the callback thread
handle_final_result ==
    /\ pc["cb"] = "idle"
    /\ Stored < MaxUtterances
    /\ pc' = [pc EXCEPT !["cb"] = "add_wait"]
    /\ UNCHANGED <<store, belief, last_utterance_count, loopctl, analysis_lock,
                   ret, cur, rd, hist, harness, recorder>>

\* RealtimeRecorder.add_transcription_line up to its call of add_utterance:
\* only text with text.strip() non-empty is handed on, and no pass is run
add_transcription_line ==
    /\ pc["cb"] = "idle"
    /\ Stored < MaxUtterances
    /\ pc' = [pc EXCEPT !["cb"] = "add_wait_rt"]
    /\ UNCHANGED <<store, belief, last_utterance_count, loopctl, analysis_lock,
                   ret, cur, rd, hist, harness, recorder>>

\* the text is put in front of the speaker's list
append_in_front(list, tx) == <<tx>> \o list

\* self.utterances[speaker_id].append(text)
append(list, tx) == Append(list, tx)

\* SpeakerAnalyzer.add_utterance(s, tx), from taking analysis_lock to the
\* return of is_new_speaker to the handler
add_utterance(t, s, tx) ==
    /\ pc[t] \in {"add_wait", "add_wait_rt"}
    /\ pc[t] = "add_wait_rt" => tx # <<>>
    /\ Admissible(s, tx)
    /\ analysis_lock = None
    /\ LET is_new_speaker == s \notin known_speakers
       IN /\ known_speakers' = known_speakers \cup {s}
          /\ utterances' = [utterances EXCEPT ![s] = append(@, tx)]
          /\ pc' = [pc EXCEPT ![t] = IF pc[t] = "add_wait" /\ is_new_speaker
                                      THEN "a_lock" ELSE "idle"]
          /\ returned_new' = [returned_new EXCEPT ![s] = IF is_new_speaker THEN @ + 1 ELSE @]
    /\ returned' = [returned EXCEPT ![s] = @ + 1]
    /\ since' = IF since = "none" THEN "none" ELSE "utterance"
    /\ nonempty_calls' = [nonempty_calls EXCEPT ![s] = IF tx # <<>> THEN @ + 1 ELSE @]
    /\ UNCHANGED <<belief, last_utterance_count, loopctl, analysis_lock,
                   ret, cur, rd, harness, recorder>>

(***************************************************************************)
(* analyze_with_llm, run by whichever thread calls it.                     *)
(***************************************************************************)
\* a return that leaves analysis_lock held
Return_keeps_lock(t, r) ==
    /\ analysis_lock' = t
    /\ ret' = IF t = "main" THEN r ELSE ret
    /\ pc' = [pc EXCEPT ![t] = Cont(t)]
    /\ cur' = [cur EXCEPT ![t] = None]

\* leaving the with block: the lock is released and the call returns r
Return(t, r) ==
    /\ analysis_lock' = None
    /\ ret' = IF t = "main" THEN r ELSE ret
    /\ pc' = [pc EXCEPT ![t] = Cont(t)]
    /\ cur' = [cur EXCEPT ![t] = None]

\* a pass that does not look whether there is anything to analyze
NoEvidence_unchecked == FALSE

\* if not self.utterances
NoEvidence == Recorded = {}

\* analyze_with_llm entered without waiting for analysis_lock
analyze_begin_unguarded(t) ==
    /\ pc[t] = "a_lock"
    /\ IF NoEvidence
         THEN Return(t, "False")
         ELSE /\ analysis_lock' = t
              /\ pc' = [pc EXCEPT ![t] = "a_oracle"]
              /\ UNCHANGED <<ret, cur>>
    /\ UNCHANGED <<store, belief, last_utterance_count, loopctl, rd,
                   hist, harness, recorder>>

\* with self.analysis_lock: the empty check, then the prompt is built and
\* get_completion_func is called with the lock held
analyze_begin(t) ==
    /\ pc[t] = "a_lock"
    /\ analysis_lock = None
    /\ IF NoEvidence
         THEN Return(t, "False")
         ELSE /\ analysis_lock' = t
              /\ pc' = [pc EXCEPT ![t] = "a_oracle"]
              /\ UNCHANGED <<ret, cur>>
    /\ UNCHANGED <<store, belief, last_utterance_count, loopctl, rd,
                   hist, harness, recorder>>

\* one self.<map>.update(result[key]) of the merge
MergeSection(d, sec) == IF sec.kind = "map" THEN Update(d, sec.map) ELSE d

Section(result, key) ==
    IF result = EmptyObject THEN SecAbsent
    ELSE CASE key = "roles" -> PayloadOf(result).roles
           [] key = "confidence" -> PayloadOf(result).confidence
           [] OTHER -> PayloadOf(result).reasoning

\* an exception reaches except Exception: the lock is still held
Raise(t) ==
    /\ pc' = [pc EXCEPT ![t] = "a_except"]
    /\ cur' = [cur EXCEPT ![t] = None]
    /\ UNCHANGED <<analysis_lock, ret>>

\* get_completion_func returns c: the parse, and self.roles.update
oracle_return(t, c) ==
    /\ pc[t] = "a_oracle"
    /\ LET parsed == ParseCompletion(c)
           sec == Section(parsed.result, "roles")
       IN IF ~parsed.ok
            THEN Return(t, parsed.ret) /\ UNCHANGED roles
            ELSE IF sec.kind = "bad"
                   THEN Raise(t) /\ UNCHANGED roles
                   ELSE /\ roles' = MergeSection(roles, sec)
                        /\ cur' = [cur EXCEPT ![t] = parsed.result]
                        /\ pc' = [pc EXCEPT ![t] = "m_conf"]
                        /\ UNCHANGED <<analysis_lock, ret>>
    /\ UNCHANGED <<store, confidence, reasoning, last_utterance_count, loopctl,
                   rd, hist, harness, recorder>>

\* get_completion_func raises
oracle_raise(t) ==
    /\ pc[t] = "a_oracle"
    /\ Raise(t)
    /\ UNCHANGED <<store, belief, last_utterance_count, loopctl, rd,
                   hist, harness, recorder>>

\* the exception leaves analyze_with_llm and ends the thread that called it
handle_exception_propagates(t) ==
    /\ pc[t] = "a_except"
    /\ analysis_lock' = None
    /\ pc' = [pc EXCEPT ![t] = IF t \in Workers THEN "dead" ELSE "crashed"]
    /\ UNCHANGED <<store, belief, last_utterance_count, loopctl, ret, cur, rd,
                   hist, harness, recorder>>

\* except Exception as e: print, return False
handle_exception(t) ==
    /\ pc[t] = "a_except"
    /\ Return(t, "False")
    /\ UNCHANGED <<store, belief, last_utterance_count, loopctl, rd,
                   hist, harness, recorder>>

\* self.confidence.update(result["confidence"])
merge_confidence(t) ==
    /\ pc[t] = "m_conf"
    /\ LET sec == Section(cur[t], "confidence")
       IN IF sec.kind = "bad"
            THEN Raise(t) /\ UNCHANGED confidence
            ELSE /\ confidence' = MergeSection(confidence, sec)
                 /\ pc' = [pc EXCEPT ![t] = "m_reas"]
                 /\ UNCHANGED <<analysis_lock, ret, cur>>
    /\ UNCHANGED <<store, roles, reasoning, last_utterance_count, loopctl,
                   rd, hist, harness, recorder>>

\* self.reasoning.update(result["reasoning"]); return True
merge_reasoning(t) ==
    /\ pc[t] = "m_reas"
    /\ LET sec == Section(cur[t], "reasoning")
       IN IF sec.kind = "bad"
            THEN Raise(t) /\ UNCHANGED reasoning
            ELSE /\ reasoning' = MergeSection(reasoning, sec)
                 /\ Return(t, "True")
    /\ UNCHANGED <<store, roles, confidence, last_utterance_count, loopctl,
                   rd, hist, harness, recorder>>

(***************************************************************************)
(* The background loop: analysis_thread_func on a worker thread.           *)
(***************************************************************************)
\* counts for every speaker id, recorded or not
current_counts_all_ids == [s \in SpeakerIds |-> Len(utterances[s])]

\* current_counts
current_counts == [s \in Recorded |-> Len(utterances[s])]

\* self.last_utterance_count.get(spk_id, 0)
last_count(s) == IF s \in DOMAIN last_utterance_count THEN last_utterance_count[s] ELSE 0

\* a comparison that leaves out the minimum
should_analyze_any_growth ==
    \E s \in Recorded : current_counts[s] > last_count(s)

\* the comparison of the scan
should_analyze ==
    \E s \in Recorded :
        /\ current_counts[s] > last_count(s)
        /\ current_counts[s] >= min_utterances_per_speaker

\* while not self.stop_analysis (after the sleep of the previous round)
loop_test(w) ==
    /\ pc[w] = "w_top"
    /\ pc' = [pc EXCEPT ![w] = IF stop_analysis THEN "dead" ELSE "w_scan"]
    /\ UNCHANGED <<store, belief, last_utterance_count, loopctl, analysis_lock,
                   ret, cur, rd, hist, harness, recorder>>

\* a scan that triggers without recording the counts it saw
scan_keeps_watermark(w) ==
    /\ pc[w] = "w_scan"
    /\ analysis_lock = None
    /\ IF should_analyze
         THEN /\ pc' = [pc EXCEPT ![w] = "a_lock"]
              /\ since' = "nothing"
         ELSE /\ pc' = [pc EXCEPT ![w] = "w_top"]
              /\ since' = IF since = "nothing" THEN "polled" ELSE since
    /\ UNCHANGED <<store, belief, last_utterance_count, loopctl, analysis_lock,
                   ret, cur, rd, calls, harness, recorder>>

\* the scan under analysis_lock; the pass, if any, starts after the release
scan(w) ==
    /\ pc[w] = "w_scan"
    /\ analysis_lock = None
    /\ IF should_analyze
         THEN /\ last_utterance_count' = current_counts
              /\ pc' = [pc EXCEPT ![w] = "a_lock"]
              /\ since' = "nothing"
         ELSE /\ pc' = [pc EXCEPT ![w] = "w_top"]
              /\ since' = IF since = "nothing" THEN "polled" ELSE since
              /\ UNCHANGED last_utterance_count
    /\ UNCHANGED <<store, belief, loopctl, analysis_lock, ret, cur, rd,
                   calls, harness, recorder>>

(***************************************************************************)
(* The controlling thread "main".                                          *)
(***************************************************************************)
Free == {i \in 1..Len(WorkerOrder) : pc[WorkerOrder[i]] = "dead"}

\* the worker threads that have been started and have not ended
Alive == {w \in Workers : pc[w] # "dead"}

\* a start that leaves the watermark as it is
NewWatermark_kept == last_utterance_count

\* self.last_utterance_count = {}
NewWatermark == Emp

\* the body of start_parallel_analysis(get_completion_func, m), called by
\* the controlling thread from position at; the thread goes on at position to
start_loop(m, at, to) ==
    /\ pc["main"] = at
    /\ Free # {}
    /\ LET w == WorkerOrder[Min(Free)]
       IN /\ analysis_thread' = w
          /\ pc' = [pc EXCEPT ![w] = "w_top", !["main"] = to]
    /\ min_utterances_per_speaker' = m
    /\ stop_analysis' = FALSE
    /\ last_utterance_count' = NewWatermark
    /\ since' = IF since \in {"nothing", "polled", "start"} THEN "start" ELSE "fresh"
    /\ UNCHANGED <<store, belief, analysis_lock, ret, cur, rd, calls, harness>>

\* start_parallel_analysis(get_completion_func, m), called when the worker
\* of the previous start, if any, has ended
start_parallel_analysis(m) ==
    /\ Alive = {}
    /\ start_loop(m, "idle", "idle")
    /\ UNCHANGED recorder

\* start_parallel_analysis(get_completion_func, m), called at any time
start_parallel_analysis_anytime(m) ==
    /\ start_loop(m, "idle", "idle")
    /\ UNCHANGED recorder

\* stop_parallel_analysis up to the join
stop_parallel_analysis ==
    /\ pc["main"] = "idle"
    /\ analysis_thread # None
    /\ stop_analysis' = TRUE
    /\ pc' = [pc EXCEPT !["main"] = "joining"]
    /\ UNCHANGED <<store, belief, last_utterance_count,
                   min_utterances_per_speaker, analysis_thread, analysis_lock,
                   ret, cur, rd, hist, harness, recorder>>

\* a thread in the oracle round trip, the only wait that has no bound
InOracle(t) == pc[t] = "a_oracle"

\* the worker cannot finish its round within the join timeout of 2 seconds:
\* it is in the oracle call, or waits for the lock of a thread that is
StuckOnOracle(w) ==
    \/ InOracle(w)
    \/ /\ pc[w] \in {"w_scan", "a_lock"}
       /\ analysis_lock # None
       /\ InOracle(analysis_lock)

\* self.analysis_thread.join(timeout=2) returns
join_return ==
    /\ pc["main"] = "joining"
    /\ \/ pc[analysis_thread] = "dead"
       \/ StuckOnOracle(analysis_thread)
    /\ pc' = [pc EXCEPT !["main"] = "idle"]
    /\ UNCHANGED <<store, belief, last_utterance_count, loopctl, analysis_lock,
                   ret, cur, rd, hist, harness, recorder>>

\* a direct call of analyze_with_llm (the final analysis)
final_analysis ==
    /\ pc["main"] = "idle"
    /\ pc' = [pc EXCEPT !["main"] = "a_lock"]
    /\ ret' = "none"
    /\ UNCHANGED <<store, belief, last_utterance_count, loopctl, analysis_lock,
                   cur, rd, hist, harness, recorder>>

(***************************************************************************)
(* A reader of the results.                                                *)
(***************************************************************************)
\* get_analysis_results / get_results: under the lock, a dict of the three
\* live maps is returned
get_analysis_results ==
    /\ rd = "idle"
    /\ analysis_lock = None
    /\ rd' = "holding"
    /\ UNCHANGED <<store, belief, last_utterance_count, loopctl, analysis_lock,
                   pc, ret, cur, hist, harness, recorder>>

\* the reader lets go of what it was given
drop_results ==
    /\ rd = "holding"
    /\ rd' = "idle"
    /\ UNCHANGED <<store, belief, last_utterance_count, loopctl, analysis_lock,
                   pc, ret, cur, hist, harness, recorder>>

\* what the reader sees through the dict it holds: the maps themselves
Held == [roles |-> roles, confidence |-> confidence, reasoning |-> reasoning]

Next ==
    \/ handle_final_result
    \/ add_transcription_line
    \/ \E s \in SpeakerIds, tx \in Texts : add_utterance("cb", s, tx)
    \/ \E t \in Threads : analyze_begin(t)
    \/ \E t \in Threads, c \in Completions : oracle_return(t, c)
    \/ \E t \in Threads : oracle_raise(t)
    \/ \E t \in Threads : handle_exception(t)
    \/ \E t \in Threads : merge_confidence(t)
    \/ \E t \in Threads : merge_reasoning(t)
    \/ \E w \in Workers : loop_test(w)
    \/ \E w \in Workers : scan(w)
    \/ start_parallel_analysis(2)
    \/ stop_parallel_analysis
    \/ join_return
    \/ final_analysis
    \/ get_analysis_results
    \/ drop_results

\* identify_speakers_from_audio starts the loop once and stops it once; the
\* controlling thread here starts it again only when the worker has ended
Spec == Init /\ [][Next]_vars

(***************************************************************************)
(* The analyzer under fair scheduling: every thread that can go on does,   *)
(* a thread that waits for analysis_lock gets it if it is free again and   *)
(* again, and every oracle call returns or raises.                         *)
(***************************************************************************)
\* what the oracle answers: a result that merges, one whose merge raises,
\* and text without a JSON object
FairCompletions == {Bare("pa"), Bare("pbad"), <<"w">>}

\* the threads that run classification passes here
PassThreads == Workers \cup {"main"}

NextFair ==
    \/ add_transcription_line
    \/ \E s \in SpeakerIds, tx \in Texts : add_utterance("cb", s, tx)
    \/ \E t \in PassThreads : analyze_begin(t)
    \/ \E t \in PassThreads, c \in FairCompletions : oracle_return(t, c)
    \/ \E t \in PassThreads : oracle_raise(t)
    \/ \E t \in PassThreads : handle_exception(t)
    \/ \E t \in PassThreads : merge_confidence(t)
    \/ \E t \in PassThreads : merge_reasoning(t)
    \/ \E w \in Workers : loop_test(w)
    \/ \E w \in Workers : scan(w)
    \/ start_parallel_analysis(2)
    \/ stop_parallel_analysis
    \/ join_return
    \/ final_analysis

Fairness ==
    /\ \A t \in PassThreads :
          /\ WF_vars(oracle_raise(t) \/ \E c \in FairCompletions : oracle_return(t, c))
          /\ WF_vars(handle_exception(t) \/ merge_confidence(t) \/ merge_reasoning(t))
          /\ SF_vars(analyze_begin(t))
    /\ \A w \in Workers : WF_vars(loop_test(w)) /\ SF_vars(scan(w))
    /\ SF_vars(\E s \in SpeakerIds, tx \in Texts : add_utterance("cb", s, tx))

SpecFair == Init /\ [][NextFair]_vars /\ Fairness

(***************************************************************************)
(* The loop under any sequence of start_parallel_analysis and              *)
(* stop_parallel_analysis calls: a start does not look at the thread of    *)
(* an earlier start.                                                       *)
(***************************************************************************)
\* what the oracle answers to the loop's passes
LoopCompletions == {Bare("pa"), Bare("pb")}

NextLoop ==
    \/ add_transcription_line
    \/ \E s \in SpeakerIds, tx \in Texts : add_utterance("cb", s, tx)
    \/ start_parallel_analysis_anytime(2)
    \/ stop_parallel_analysis
    \/ join_return
    \/ \E w \in Workers : loop_test(w)
    \/ \E w \in Workers : scan(w)
    \/ \E w \in Workers : analyze_begin(w)
    \/ \E w \in Workers, c \in LoopCompletions : oracle_return(w, c)
    \/ \E w \in Workers : oracle_raise(w)
    \/ \E w \in Workers : handle_exception(w)
    \/ \E w \in Workers : merge_confidence(w)
    \/ \E w \in Workers : merge_reasoning(w)

SpecLoop == Init /\ [][NextLoop]_vars

(***************************************************************************)
(* scripts/realtime_meeting_processor.py: the RealtimeRecorder owns a      *)
(* SpeakerAnalyzer; its constructor starts the loop if it was given a      *)
(* provider, and run_realtime_processor gives it one after construction.   *)
(***************************************************************************)
Providers == {None, "provider"}

\* RealtimeRecorder.__init__(azure_openai_provider = provider) up to the
\* test of line 85; without a provider the constructor is done
RealtimeRecorder_init(provider) ==
    /\ pc["main"] = "idle"
    /\ analysis_thread = None
    /\ known_speakers = {}
    /\ azure_openai_provider' = provider
    /\ pc' = [pc EXCEPT !["main"] = IF provider # None THEN "rt_starting"
                                                       ELSE "rt_created"]
    /\ UNCHANGED <<store, belief, last_utterance_count, loopctl, analysis_lock,
                   ret, cur, rd, hist, harness>>

\* RealtimeRecorder._start_speaker_analysis_thread, called by the constructor
start_speaker_analysis_thread ==
    /\ azure_openai_provider # None
    /\ start_loop(2, "rt_starting", "rt_provided")
    /\ UNCHANGED recorder

\* run_realtime_processor: recorder.azure_openai_provider = the provider
\* made by initialize_azure_openai_provider, then the transcription starts
assign_provider ==
    /\ pc["main"] = "rt_created"
    /\ azure_openai_provider' = "provider"
    /\ pc' = [pc EXCEPT !["main"] = "rt_main_loop"]
    /\ UNCHANGED <<store, belief, last_utterance_count, loopctl, analysis_lock,
                   ret, cur, rd, hist, harness>>

\* the transcription thread runs once the recorder is set up
Transcribing == pc["main"] \in {"rt_main_loop", "rt_provided"}

\* transcribe_from_microphone hands a line to add_transcription_line
transcribe_from_microphone ==
    /\ Transcribing
    /\ add_transcription_line

NextRealtime ==
    \/ \E provider \in Providers : RealtimeRecorder_init(provider)
    \/ start_speaker_analysis_thread
    \/ assign_provider
    \/ transcribe_from_microphone
    \/ \E s \in SpeakerIds, tx \in Texts : add_utterance("cb", s, tx)
    \/ \E w \in Workers : loop_test(w)
    \/ \E w \in Workers : scan(w)
    \/ \E w \in Workers : analyze_begin(w)
    \/ \E w \in Workers, c \in LoopCompletions : oracle_return(w, c)
    \/ \E w \in Workers : oracle_raise(w)
    \/ \E w \in Workers : handle_exception(w)
    \/ \E w \in Workers : merge_confidence(w)
    \/ \E w \in Workers : merge_reasoning(w)

SpecRealtime == Init /\ [][NextRealtime]_vars

(***************************************************************************)
(* add_utterance called from two threads at once.  The body runs under     *)
(* analysis_lock; it is taken in two steps here, the test for a new        *)
(* speaker and the writes, so that the lock is what keeps them together.   *)
(***************************************************************************)
Callers == {"cb", "main"}

\* a thread calls add_utterance(s, tx)
call_add_utterance(t, s, tx) ==
    /\ pc[t] = "idle"
    /\ Admissible(s, tx)
    /\ pc' = [pc EXCEPT ![t] = "add_wait"]
    /\ cur' = [cur EXCEPT ![t] = [speaker |-> s, text |-> tx, is_new_speaker |-> FALSE]]
    /\ UNCHANGED <<store, belief, last_utterance_count, loopctl, analysis_lock,
                   ret, rd, hist, harness, recorder>>

\* the test for a new speaker made without taking analysis_lock
add_utterance_enter_unlocked(t) ==
    /\ pc[t] = "add_wait"
    /\ pc' = [pc EXCEPT ![t] = "add_store"]
    /\ cur' = [cur EXCEPT ![t].is_new_speaker = cur[t].speaker \notin known_speakers]
    /\ UNCHANGED <<store, belief, last_utterance_count, loopctl, analysis_lock,
                   ret, rd, hist, harness, recorder>>

\* with self.analysis_lock: is_new_speaker = speaker_id not in known_speakers
add_utterance_enter(t) ==
    /\ pc[t] = "add_wait"
    /\ analysis_lock = None
    /\ analysis_lock' = t
    /\ pc' = [pc EXCEPT ![t] = "add_store"]
    /\ cur' = [cur EXCEPT ![t].is_new_speaker = cur[t].speaker \notin known_speakers]
    /\ UNCHANGED <<store, belief, last_utterance_count, loopctl, ret, rd,
                   hist, harness, recorder>>

\* known_speakers.add, the append, the release of the lock and the return
add_utterance_store(t) ==
    /\ pc[t] = "add_store"
    /\ LET s == cur[t].speaker
           tx == cur[t].text
       IN /\ known_speakers' = known_speakers \cup {s}
          /\ utterances' = [utterances EXCEPT ![s] = append(@, tx)]
          /\ nonempty_calls' = [nonempty_calls EXCEPT ![s] = IF tx # <<>> THEN @ + 1 ELSE @]
          /\ returned' = [returned EXCEPT ![s] = @ + 1]
          /\ returned_new' = [returned_new EXCEPT ![s] =
                                 IF cur[t].is_new_speaker THEN @ + 1 ELSE @]
    /\ analysis_lock' = None
    /\ pc' = [pc EXCEPT ![t] = "idle"]
    /\ cur' = [cur EXCEPT ![t] = None]
    /\ UNCHANGED <<belief, last_utterance_count, loopctl, ret, rd, since, harness, recorder>>

NextIngest ==
    \/ \E t \in Callers, s \in SpeakerIds, tx \in Texts : call_add_utterance(t, s, tx)
    \/ \E t \in Callers : add_utterance_enter(t)
    \/ \E t \in Callers : add_utterance_store(t)

SpecIngest == Init /\ [][NextIngest]_vars

(***************************************************************************)
(* The analyzer of scripts/test_dynamic_speaker_identification.py with an  *)
(* oracle that fails: the same store, lock and entry into the pass, and    *)
(* an except branch that makes the best guess for every recorded speaker.  *)
(***************************************************************************)
\* what the speakers say in this session
HeuristicTexts ==
    { <<"hej">>, <<"risk">>, <<"Fond">>, <<"riskfri">>, <<"risk", "fond">> }

\* the best guess of one pass: what it assigns to every recorded speaker
BestGuess(value) == [s \in Recorded |-> value[s]]

\* except Exception of the scripts copy: the best guess, return True
best_guess(t) ==
    /\ pc[t] = "a_except"
    /\ roles' = Update(roles, BestGuess([s \in SpeakerIds |-> HeuristicRole(utterances[s])]))
    /\ confidence' = Update(confidence,
                            BestGuess([s \in SpeakerIds |-> HeuristicConfidence(utterances[s])]))
    /\ reasoning' = Update(reasoning,
                           BestGuess([s \in SpeakerIds |-> HeuristicRole(utterances[s])]))
    /\ Return(t, "True")
    /\ UNCHANGED <<store, last_utterance_count, loopctl, rd, hist, harness, recorder>>

NextHeuristic ==
    \/ add_transcription_line
    \/ \E s \in SpeakerIds, tx \in HeuristicTexts : add_utterance("cb", s, tx)
    \/ final_analysis
    \/ analyze_begin("main")
    \/ oracle_raise("main")
    \/ best_guess("main")

SpecHeuristic == Init /\ [][NextHeuristic]_vars

(***************************************************************************)
(* One classification pass on its own: the oracle's payload, wrapped, is   *)
(* fed to the parse and merge of analyze_with_llm on an empty belief       *)
(* state.                                                                  *)
(***************************************************************************)
\* prose of at most n tokens: words, line breaks, braces and fences
WrapTokens == {"w", "nl", "{", "}", Fence}

RECURSIVE SeqsUpTo(_, _)
SeqsUpTo(S, n) ==
    IF n = 0 THEN {<<>>}
    ELSE LET shorter == SeqsUpTo(S, n - 1)
         IN shorter \cup {Append(q, x) : q \in shorter, x \in S}

Prose == SeqsUpTo(WrapTokens, MaxWrap)

\* lines 171-219 from the completion on: what is returned, and the belief
\* state a pass leaves when it starts from the empty one
PassOutcome(c) ==
    LET parsed == ParseCompletion(c)
        r == Section(parsed.result, "roles")
        k == Section(parsed.result, "confidence")
        g == Section(parsed.result, "reasoning")
    IN IF ~parsed.ok
         THEN [NoOutcome EXCEPT !.ret = parsed.ret]
       ELSE IF r.kind = "bad"
         THEN [NoOutcome EXCEPT !.ret = "False"]
       ELSE IF k.kind = "bad"
         THEN [NoOutcome EXCEPT !.ret = "False", !.roles = MergeSection(Emp, r)]
       ELSE IF g.kind = "bad"
         THEN [NoOutcome EXCEPT !.ret = "False", !.roles = MergeSection(Emp, r),
                                !.confidence = MergeSection(Emp, k)]
       ELSE [ret |-> "True", roles |-> MergeSection(Emp, r),
             confidence |-> MergeSection(Emp, k),
             reasoning |-> MergeSection(Emp, g)]

analyzer == <<utterances, known_speakers, roles, confidence, reasoning,
              last_utterance_count, min_utterances_per_speaker, stop_analysis,
              analysis_thread, analysis_lock, pc, ret, cur, rd, since,
              nonempty_calls, returned, returned_new, azure_openai_provider>>

\* the oracle answers with payload id between two pieces of prose
respond_in_prose(id, before, after) ==
    /\ text = NoText
    /\ text' = [payload |-> id, completion |-> before \o Bare(id) \o after]
    /\ outcome' = NoOutcome
    /\ UNCHANGED analyzer

\* the oracle answers with payload id in a markdown code fence
respond_in_fence(id, tagged) ==
    /\ text = NoText
    /\ text' = [payload |-> id,
                completion |-> IF tagged THEN InJsonFence(Bare(id))
                                         ELSE InFence(Bare(id))]
    /\ outcome' = NoOutcome
    /\ UNCHANGED analyzer

\* the pass parses and merges the completion
run_pass ==
    /\ text # NoText
    /\ outcome = NoOutcome
    /\ outcome' = PassOutcome(text.completion)
    /\ UNCHANGED <<analyzer, text>>

\* analyze_with_llm has returned: the completion is gone
end_pass ==
    /\ outcome # NoOutcome
    /\ text' = NoText
    /\ outcome' = NoOutcome
    /\ UNCHANGED analyzer

NextParse ==
    \/ /\ text = NoText
       /\ \E id \in PayloadIds, before \in Prose, after \in Prose :
             respond_in_prose(id, before, after)
    \/ /\ text = NoText
       /\ \E id \in PayloadIds, tagged \in BOOLEAN : respond_in_fence(id, tagged)
    \/ run_pass
    \/ end_pass

SpecParse == Init /\ [][NextParse]_vars

(***************************************************************************)
(* The claims.                                                             *)
(***************************************************************************)
\* C1: at most one oracle invocation is in progress at any time, whatever
\* the interleaving of the loop worker, direct analyze_with_llm calls and
\* add_utterance calls.
C1_AtMostOneInFlight == Cardinality({t \in Threads : InOracle(t)}) <= 1

\* C1 witness: three speakers are recorded, one thread is in the oracle call,
\* another has called analyze_with_llm, and the loop worker wants to scan.
C1_Contention ==
    /\ Cardinality(Recorded) >= 3
    /\ \E t \in Threads, u \in Threads :
          t # u /\ InOracle(t) /\ pc[u] = "a_lock"
    /\ \E w \in Workers : pc[w] = "w_scan"

\* C2: analysis_lock is never held by a thread that is inside the oracle
\* call, so an add_utterance issued meanwhile does not wait for the oracle.
C2_OracleOutsideLock == \A t \in Threads : InOracle(t) => analysis_lock # t

\* a scan by w that ends with a pass triggered
Triggers(w) == pc[w] = "w_scan" /\ pc'[w] = "a_lock"

Shows(d, m) == \A s \in DOMAIN m : s \in DOMAIN d /\ d[s] = m[s]

\* the view pairs the roles of a pass with confidence or reasoning from
\* before that pass
Torn(view) ==
    \E t \in Threads :
        LET r == Section(cur[t], "roles")
            k == Section(cur[t], "confidence")
            g == Section(cur[t], "reasoning")
        IN /\ pc[t] \in {"m_conf", "m_reas"}
           /\ r.kind = "map" /\ Shows(view.roles, r.map)
           /\ \/ pc[t] = "m_conf" /\ k.kind = "map" /\ ~Shows(view.confidence, k.map)
              \/ g.kind = "map" /\ ~Shows(view.reasoning, g.map)

\* C4: what a reader was given by get_analysis_results / get_results never
\* shows a pass partly merged (roles of the new pass, confidence or
\* reasoning of the previous one).
C4_AtomicPublish == rd = "holding" => ~Torn(Held)

\* C5: after a pass in which the oracle raised or its response could not be
\* parsed, every speaker with recorded utterances has the role the heuristic
\* fallback gives for its utterances.
C5_FallbackOnFailure ==
    [][\A t \in Threads :
          (pc[t] \in {"a_oracle", "a_except"} /\ pc'[t] = Cont(t))
             => \A s \in Recorded :
                   /\ s \in DOMAIN roles'
                   /\ roles'[s] = HeuristicRole(utterances[s])]_vars

\* C6: the utterance count of every speaker equals the number of
\* add_utterance calls made for it with non-empty text (0 if never seen).
C6_CountOfNonEmptyCalls ==
    /\ \A s \in SpeakerIds : get_utterance_count(s) = nonempty_calls[s]
    /\ get_utterance_count(PhantomId) = 0

\* C7: when stop_parallel_analysis returns, the loop worker has terminated.
C7_StopJoinsWorker ==
    [][(pc["main"] = "joining" /\ pc'["main"] = "idle")
          => pc'[analysis_thread] = "dead"]_vars

\* C8: every speaker id with a role, confidence or reasoning entry has at
\* least one recorded utterance.
C8_BeliefWithinEvidence ==
    (DOMAIN roles \cup DOMAIN confidence \cup DOMAIN reasoning) \subseteq Recorded

\* C9: a pass fed a valid payload in a code fence, or between prose, returns
\* and merges what a pass fed the bare payload does.
C9_ParseResilience ==
    outcome # NoOutcome => outcome = PassOutcome(Bare(text.payload))

\* C10: an exception in a pass is caught: analyze_with_llm returns False to
\* its caller, the lock is released, the evidence store is untouched, and the
\* calling thread goes on (the loop worker to its next round).
C10_OracleErrorsContained ==
    [][\A t \in Threads :
          (pc[t] = "a_except" /\ pc'[t] # "a_except")
             => /\ pc'[t] = Cont(t)
                /\ analysis_lock' = None
                /\ t = "main" => ret' = "False"
                /\ UNCHANGED store]_vars

\* C10 witness: the oracle has raised in a pass of the loop worker while the
\* callback thread waits in add_utterance for the lock.
C10_WorkerCaughtException ==
    /\ \E w \in Workers : pc[w] = "a_except" /\ analysis_lock = w
    /\ pc["cb"] \in {"add_wait", "add_wait_rt"}
    /\ ~stop_analysis

\* C11: no step removes a speaker id from roles, confidence or reasoning,
\* and a pass that fails entirely (the oracle raised, or no JSON object could
\* be read from its response) leaves the three maps as they were, as does
\* the handling of any exception.
C11_NeverDropped ==
    [][/\ DOMAIN roles \subseteq DOMAIN roles'
       /\ DOMAIN confidence \subseteq DOMAIN confidence'
       /\ DOMAIN reasoning \subseteq DOMAIN reasoning'
       /\ \A t \in Threads :
             (\/ pc[t] = "a_oracle" /\ pc'[t] \in {"a_except", Cont(t)}
              \/ pc[t] = "a_except" /\ pc'[t] # "a_except")
                => UNCHANGED belief]_vars

\* C11 witness: with beliefs about two speakers in place, a direct pass has
\* just returned without finding a JSON object in the response.
C11_FailedPassKeptBelief ==
    /\ ret = "None"
    /\ pc["main"] = "idle"
    /\ {"A", "B"} \subseteq DOMAIN roles
    /\ {"A", "B"} \subseteq DOMAIN reasoning

\* the number of distinct indicator terms that occur anywhere in the texts
DistinctScore(texts) ==
    Cardinality({ind \in AdvisorIndicators :
                    \E i \in 1..Len(texts) : Matches(ind, texts[i])})

\* C12: the fallback gives a speaker the role advisor with confidence 0.7
\* when at least two distinct indicator terms occur in its utterances, and
\* client with confidence 0.6 otherwise; a term repeated in several
\* utterances counts once.
C12_DistinctIndicatorScore ==
    [][(pc["main"] = "a_except" /\ pc'["main"] = "idle")
          => \A s \in Recorded :
                IF DistinctScore(utterances[s]) >= 2
                  THEN roles'[s] = "advisor" /\ confidence'[s] = 7
                  ELSE roles'[s] = "client" /\ confidence'[s] = 6]_vars

\* C13: every call of analyze_with_llm returns a boolean: True when the
\* response was parsed and merged, False on every other path (no
\* utterances, the oracle raised, no JSON object in the response).
C13_ReturnsBoolean ==
    [][(pc["main"] \in {"a_lock", "a_oracle", "a_except", "m_reas"}
           /\ pc'["main"] = "idle")
          => /\ ret' \in {"True", "False"}
             /\ ret' = "True" <=> pc["main"] = "m_reas"]_vars

\* C14: a call of analyze_with_llm made when no utterance has been recorded
\* returns False without an error and without calling the oracle, and leaves
\* the belief state empty and the evidence store and watermark as they were.
C14_NothingBeforeEvidence ==
    [][\A t \in Threads :
          (pc[t] = "a_lock" /\ pc'[t] # "a_lock" /\ Recorded = {})
             => /\ pc'[t] = Cont(t)
                /\ t = "main" => ret' = "False"
                /\ roles' = Emp /\ confidence' = Emp /\ reasoning' = Emp
                /\ UNCHANGED <<store, last_utterance_count>>]_vars

\* C14 witness: with the loop running and nothing recorded, a direct call
\* has returned False.
C14_EmptyCallReturned ==
    /\ Recorded = {}
    /\ ret = "False"
    /\ pc["main"] = "idle"
    /\ \E w \in Workers : pc[w] \in {"w_top", "w_scan"}

IsPrefix(a, b) == Len(a) <= Len(b) /\ SubSeq(b, 1, Len(a)) = a

\* C15: every step leaves each speaker's earlier utterance sequence as a
\* prefix of the later one, and only add_utterance changes the evidence
\* store: passes of any outcome, start and stop leave it as it was.
C15_AppendOnly ==
    [][/\ \A s \in SpeakerIds : IsPrefix(utterances[s], utterances'[s])
       /\ known_speakers \subseteq known_speakers'
       /\ store' # store
             => /\ pc["cb"] \in {"add_wait", "add_wait_rt"}
                /\ pc'["cb"] \notin {"add_wait", "add_wait_rt"}
                /\ UNCHANGED <<belief, last_utterance_count, loopctl>>
                /\ \A t \in Threads \ {"cb"} : pc'[t] = pc[t]]_vars

\* C15 witness: a speaker has two different texts in arrival order, after a
\* pass has failed and the loop has been told to stop.
C15_TwoTextsInOrder ==
    /\ utterances["A"] = << <<"risk">>, <<>> >>
    /\ ret \in {"False", "None"}
    /\ stop_analysis

\* C16: a call of add_utterance returns True exactly when its speaker had
\* no recorded utterance, grows that speaker's sequence by exactly one, and
\* of all the calls made for a speaker, concurrent ones included, exactly
\* one has returned True.
C16_FirstUtteranceOnce ==
    [][\A t \in Callers :
          (pc[t] = "add_store" /\ pc'[t] = "idle")
             => LET s == cur[t].speaker
                IN /\ cur[t].is_new_speaker <=> utterances[s] = <<>>
                   /\ utterances'[s] = Append(utterances[s], cur[t].text)
                   /\ returned_new'[s] = 1
                   /\ returned'[s] = Len(utterances'[s])]_vars

\* C16 witness: two calls for the same speaker, not seen before, are in
\* progress at once: one is inside the lock, the other waits for it.
C16_TwoCallsNewSpeaker ==
    /\ pc["cb"] = "add_store" /\ pc["main"] = "add_wait"
    /\ cur["cb"].speaker = "B" /\ cur["main"].speaker = "B"
    /\ cur["cb"].is_new_speaker
    /\ "B" \notin known_speakers

\* C17: when a classification pass completes, whoever started it and
\* whatever its outcome, the watermark of every speaker the pass considered
\* equals the utterance count the pass saw.
C17_WatermarkAfterEveryPass ==
    [][\A t \in Threads :
          (pc[t] \in {"a_oracle", "a_except", "m_reas"} /\ pc'[t] = Cont(t))
             => \A s \in Recorded :
                   /\ s \in DOMAIN last_utterance_count'
                   /\ last_utterance_count'[s] = Len(utterances[s])]_vars

C19_NoOracleOnIngestion == \A t \in Threads : InOracle(t) => t \in Workers \cup {"main"}

\* C20: once stop_parallel_analysis has set the stop flag, the loop worker
\* begins no oracle call; a pass already in its oracle call goes on to
\* merge its result.
C20_NoNewPassAfterStop ==
    [][\A w \in Workers :
          /\ stop_analysis => ~(~InOracle(w) /\ InOracle(w)')
          /\ (stop_analysis /\ InOracle(w)) => pc'[w] \in {"a_oracle", "a_except", "m_conf", Cont(w)}]_vars

\* C21: whatever the sequence of start_parallel_analysis and
\* stop_parallel_analysis calls, at most one loop worker thread is alive.
C21_OneLoopWorker == Cardinality(Alive) <= 1

\* C22: when a classification pass completes, every speaker that had an
\* utterance when the pass started has a role in the belief state, also
\* when the oracle's response left that speaker out.
C22_EveryConsideredSpeakerHasRole ==
    [][\A t \in Threads :
          (pc[t] \in {"a_oracle", "a_except", "m_reas"} /\ pc'[t] = Cont(t))
             => Recorded \subseteq DOMAIN roles']_vars

\* C23: when no merge is in progress the three maps have the same speaker
\* ids, and each speaker's role, confidence and reasoning come from one
\* pass.
C23_ReplacedAsAWhole ==
    (\A t \in Threads : pc[t] \notin {"m_conf", "m_reas", "a_except"})
        => /\ DOMAIN roles = DOMAIN confidence
           /\ DOMAIN roles = DOMAIN reasoning
           /\ \A s \in DOMAIN roles :
                 \E id \in PayloadIds :
                    LET p == PayloadOf(id)
                    IN /\ p.roles.kind = "map" /\ s \in DOMAIN p.roles.map
                       /\ p.roles.map[s] = roles[s]
                       /\ p.confidence.kind = "map" /\ s \in DOMAIN p.confidence.map
                       /\ p.confidence.map[s] = confidence[s]
                       /\ p.reasoning.kind = "map" /\ s \in DOMAIN p.reasoning.map
                       /\ p.reasoning.map[s] = reasoning[s]

\* C24: add_utterance is followed at once by a classification pass on the
\* delivering thread exactly when it brings its speaker's utterance count
\* to min_utterances_per_speaker; below the threshold no such pass is run.
C24_EagerAtThreshold ==
    [][(pc["cb"] \in {"add_wait", "add_wait_rt"}
           /\ pc'["cb"] \notin {"add_wait", "add_wait_rt"})
          => \A s \in SpeakerIds :
                Len(utterances'[s]) > Len(utterances[s])
                   => (pc'["cb"] = "a_lock"
                          <=> Len(utterances'[s]) = min_utterances_per_speaker)]_vars

\* C25: every stored role is advisor, client or unknown, and every stored
\* confidence lies between 0 and 1 (confidence is counted in tenths).
C25_WellTypedBelief ==
    /\ \A s \in DOMAIN roles : roles[s] \in {"advisor", "client", "unknown"}
    /\ \A s \in DOMAIN confidence : confidence[s] \in 0..10

\* C26: when stop_parallel_analysis returns after a start made with some
\* speaker at or above min_utterances_per_speaker and no utterance since,
\* the loop has triggered a classification pass since that start and the
\* pass has completed.
C26_StartStopStillAnalyses ==
    [][(/\ pc["main"] = "joining" /\ pc'["main"] = "idle"
        /\ \E s \in SpeakerIds : Len(utterances[s]) >= min_utterances_per_speaker)
          => /\ since \notin {"fresh", "start"}
             /\ since = "nothing"
                   => pc[analysis_thread] \notin
                         {"a_lock", "a_oracle", "a_except", "m_conf", "m_reas"}]_vars

\* C27: once run_realtime_processor has created the RealtimeRecorder and
\* assigned its provider, the analyzer's loop worker has been started and is
\* running, so that utterances taken in from then on are analysed by it.
C27_LoopRunsInRealtime ==
    pc["main"] = "rt_main_loop" => analysis_thread # None /\ Alive # {}

C29_RestartResetsDebounce ==
    [][\A w \in Workers :
          /\ (pc[w] = "dead" /\ pc'[w] = "w_top")
                => last_utterance_count' = Emp /\ stop_analysis' = FALSE
          /\ (/\ pc[w] = "w_scan" /\ pc'[w] # "w_scan"
              /\ since \in {"start", "fresh"}
              /\ \E s \in SpeakerIds :
                    Len(utterances[s]) >= min_utterances_per_speaker)
                => pc'[w] = "a_lock"]_vars

\* C29 witness: the loop was started again after a pass that merged a
\* result, no utterance has been recorded since that pass, a speaker is at
\* the threshold, and the new worker is about to scan.
C29_ScanAfterRestart ==
    /\ since = "start"
    /\ \E w \in Workers : pc[w] = "w_scan"
    /\ roles # Emp
    /\ \E s \in SpeakerIds : Len(utterances[s]) >= min_utterances_per_speaker

\* C30: every speaker with a watermark entry has recorded utterances and
\* its watermark is at most its utterance count; known_speakers is the set
\* of keys of utterances; and add_utterance changes neither the watermark
\* nor the belief state.
C30_WatermarkAndSpeakerSet ==
    /\ [](/\ DOMAIN last_utterance_count \subseteq Recorded
          /\ \A s \in DOMAIN last_utterance_count :
                last_utterance_count[s] <= Len(utterances[s])
          /\ known_speakers = Recorded)
    /\ [][utterances' # utterances
            => UNCHANGED <<roles, confidence, reasoning, last_utterance_count>>]_vars

\* C30 witness: a scan has recorded the watermark of the one speaker heard
\* by then, a pass has merged a result, and a second speaker, heard later,
\* has no watermark entry.
C30_WatermarkBehind ==
    /\ DOMAIN last_utterance_count = {"A"}
    /\ last_utterance_count["A"] = 2
    /\ Len(utterances["A"]) = 2
    /\ known_speakers = {"A", "B"}
    /\ roles # Emp

=============================================================================
